---------------------------- MODULE Spec2Model ----------------------------
(***************************************************************************)
(* Village validation and structure resolution of clash-sim (src/main.py). *)
(*                                                                         *)
(* Spec       : main's pipeline, generate_structures_list followed by      *)
(*              validate_village on the list it returned.                  *)
(* SpecDirect : validate_village called on an arbitrary structure list     *)
(*              and building cache.                                        *)
(***************************************************************************)
EXTENDS Integers, Sequences, FiniteSets, TLC

VARIABLES
    catalog,            \* the JSON files under data/structures: [variant, levels]
    cell_size,          \* main's cell_size argument
    buildings,          \* village["buildings"], the raw building records
    building_cache,     \* kinds whose catalog file is loaded into the cache
    structures,         \* the list generate_structures_list builds / validate_village reads
    b,                  \* generate_structures_list: index of the next raw building
    i,                  \* validate_village: index of the next structure of the scan
    townhall,           \* None, or Some(the townhall structure)
    previous_townhall,  \* None, or Some(townhall level record of level L-1)
    current_buildings,  \* dict kind -> list of levels
    positions,          \* list of the 'positions' values seen so far
    valid,
    warnings,
    max_combined_count,
    max_combined_level,
    printed,            \* lines written to standard output by validate_village
    returned,           \* None while running, Some(TRUE) or Some(FALSE) after the return
    pc

vars == <<catalog, cell_size, buildings, building_cache, structures, b, i,
          townhall, previous_townhall, current_buildings, positions, valid,
          warnings, max_combined_count, max_combined_level, printed,
          returned, pc>>

-----------------------------------------------------------------------------
(* Bounds of the model *)

MaxBuildings == 2    \* raw buildings of a village snapshot
MaxPositions == 2    \* entries of one raw building's 'positions' list
MaxStructures == 3   \* structures of a list passed directly to validate_village
MaxSize == 4         \* footprint width and height, in cells (SpecGeometry)
MaxCoord == 1        \* grid coordinates 0..MaxCoord (SpecGeometry)

Levels == {1, 2}

Kinds == {"townhall", "cannon", "army camp"}

Variants == {"plain", "split", "nolevel"}

Points == {<<0, 1>>, <<2, 0>>}

CellSizes == {10, 5}

-----------------------------------------------------------------------------
(* Python values *)

None == <<>>

Some(x) == <<x>>

Digits == <<"0", "1", "2", "3", "4", "5", "6", "7", "8", "9">>

\* str(n) of a non-negative integer
RECURSIVE Str(_)
Str(n) == IF n < 10 THEN Digits[n + 1] ELSE Str(n \div 10) \o Digits[(n % 10) + 1]

\* int(s) of a decimal string
ToInt(s) == CHOOSE n \in 0..99 : Str(n) = s

\* dict: the list of its items in insertion order
Has(d, k) == \E n \in DOMAIN d : d[n].key = k

Get(d, k) == d[CHOOSE n \in DOMAIN d : d[n].key = k].value

GetOr(d, k, default) == IF Has(d, k) THEN Get(d, k) ELSE default

Put(d, k, v) ==
    IF Has(d, k)
    THEN [n \in DOMAIN d |-> IF d[n].key = k THEN [key |-> k, value |-> v] ELSE d[n]]
    ELSE Append(d, [key |-> k, value |-> v])

Item(k, v) == [key |-> k, value |-> v]

RECURSIVE Max(_)
Max(s) == IF Len(s) = 1 THEN s[1]
          ELSE IF Head(s) > Max(Tail(s)) THEN Head(s) ELSE Max(Tail(s))

SeqsUpTo(S, lo, hi) == UNION {[1..n -> S] : n \in lo..hi}

-----------------------------------------------------------------------------
(* The building catalog: one JSON document per kind *)

NoTables ==
    [max_number_of_resource |-> <<>>, max_level_of_resource |-> <<>>,
     max_number_of_army     |-> <<>>, max_level_of_army     |-> <<>>,
     max_number_of_defense  |-> <<>>, max_level_of_defense  |-> <<>>,
     max_number_of_traps    |-> <<>>, max_level_of_traps    |-> <<>>]

\* the record of one level of townhall.json, with its eight capacity tables
TownhallRecord(variant, L) ==
    CASE variant = "plain" ->
           [NoTables EXCEPT !.max_number_of_army    = <<Item("army camp", L)>>,
                            !.max_level_of_army     = <<Item("army camp", L)>>,
                            !.max_number_of_defense = <<Item("cannon", L + 1)>>,
                            !.max_level_of_defense  = <<Item("cannon", L)>>]
      [] variant = "split" ->
           [NoTables EXCEPT !.max_number_of_defense = <<Item("cannon", 1)>>,
                            !.max_level_of_defense  = <<Item("cannon", 1)>>,
                            !.max_number_of_traps   = <<Item("cannon", L - 1)>>,
                            !.max_level_of_traps    = <<Item("cannon", L - 1)>>]
      [] variant = "nolevel" ->
           [NoTables EXCEPT !.max_number_of_army    = <<Item("army camp", L)>>,
                            !.max_level_of_army     = <<Item("army camp", L)>>,
                            !.max_number_of_defense = <<Item("cannon", L + 1)>>]

\* cache[kind][level]
LevelRecord(cat, kind, level) ==
    IF kind = "townhall" THEN TownhallRecord(cat.variant, ToInt(level)) ELSE NoTables

\* the level keys of cache[kind]
LevelKeys(cat, kind) ==
    IF kind = "townhall" THEN cat.levels ELSE {Str(L) : L \in Levels}

\* cache[kind]["size"]
SizeOf(cat, kind) == cat.size[kind]

\* cache[kind]["max count"]
MaxCountOf(cat, kind) == IF kind = "townhall" THEN 1 ELSE 5

\* cache[kind]["type"]
TypeOf(cat, kind) ==
    CASE kind = "townhall"  -> "other"
      [] kind = "cannon"    -> "defense"
      [] kind = "army camp" -> "army"

\* cache[kind]["inset"]
InsetOf(cat, kind) == IF kind = "townhall" THEN 0 ELSE 1

AllLevelKeys == {Str(L) : L \in Levels}

Size(w, h) == [width |-> w, height |-> h]

\* the "size" entries of the catalog files of a variant
StandardSize(variant) ==
    [kind \in Kinds |->
        CASE kind = "townhall"  -> Size(4, 4)
          [] kind = "cannon"    -> IF variant = "plain" THEN Size(3, 3) ELSE Size(3, 2)
          [] kind = "army camp" -> IF variant = "plain" THEN Size(4, 4) ELSE Size(2, 5)]

Catalog(variant, levels) ==
    [variant |-> variant, levels |-> levels, size |-> StandardSize(variant)]

\* the catalogs: every variant complete, or with the record of townhall level 1 missing
Catalogs ==
    {Catalog(v, l) : v \in Variants, l \in {AllLevelKeys, AllLevelKeys \ {"1"}}}

-----------------------------------------------------------------------------
(* generate_structures_list *)

\* identity of a mutable object: who created it and where it is stored
Ref(owner, name, index, sub, field) ==
    [owner |-> owner, name |-> name, index |-> index, sub |-> sub, field |-> field]

\* Center with the odd-size adjustment of each axis taken from the other axis
CenterParitySwapped(position, size, c) ==
    LET center_x == (position[1] + size.width \div 2) * c
        center_y == (position[2] + size.height \div 2) * c
    IN  << IF size.height % 2 # 0 THEN center_x + c \div 2 ELSE center_x,
           IF size.width % 2 # 0 THEN center_y + c \div 2 ELSE center_y >>

\* the center of a structure, in pixels
Center(position, size, c) ==
    LET center_x == (position[1] + size.width \div 2) * c
        center_y == (position[2] + size.height \div 2) * c
    IN  << IF size.width % 2 # 0 THEN center_x + c \div 2 ELSE center_x,
           IF size.height % 2 # 0 THEN center_y + c \div 2 ELSE center_y >>

\* the position list of a raw building
BuildingPositions(cat, building) ==
    IF MaxCountOf(cat, building.type) = 1
    THEN << <<building.x, building.y>> >>
    ELSE building.positions

\* the structure built for entry k of the position list of raw building n;
\* it becomes element s of the structure list
MakeStructure(cat, c, n, k, s) ==
    LET building       == buildings[n]
        building_name  == building.type
        building_level == Str(building.level)
        single         == MaxCountOf(cat, building_name) = 1
        position       == BuildingPositions(cat, building)[k]
    IN  [rec       |-> LevelRecord(cat, building_name, building_level),
         level     |-> building_level,
         name      |-> building_name,
         type      |-> TypeOf(cat, building_name),
         position  |-> position,
         center    |-> Center(position, SizeOf(cat, building_name), c),
         size      |-> SizeOf(cat, building_name),
         inset     |-> InsetOf(cat, building_name),
         \* the level records hold no 'positions' key and update() sets none
         positions |-> None,
         troops    |-> IF building_name = "army camp" THEN Some(building.troops) ELSE None,
         \* copy.deepcopy makes a new record for every structure
         rec_ref      |-> Ref("structure", building_name, s, 0, "record"),
         \* 'size' is the dict held by the cache entry
         size_ref     |-> Ref("cache", building_name, 0, 0, "size"),
         \* 'position' is the new [x, y] list, or the element of building['positions']
         position_ref |-> IF single THEN Ref("structure", building_name, s, 0, "position")
                          ELSE Ref("input", building_name, n, k, "positions"),
         \* 'troops' is the object held by the raw building
         troops_ref   |-> IF building_name = "army camp"
                          THEN Some(Ref("input", building_name, n, 0, "troops"))
                          ELSE None]

\* one iteration of the loop over the raw buildings
ResolveBuilding ==
    /\ pc = "resolve"
    /\ b <= Len(buildings)
    /\ LET building_name  == buildings[b].type
           building_level == Str(buildings[b].level)
           n              == Len(BuildingPositions(catalog, buildings[b]))
       IN  /\ building_cache' = building_cache \cup {building_name}
           /\ IF n > 0 /\ building_level \notin LevelKeys(catalog, building_name)
              THEN \* KeyError of building_cache[building_name][building_level]
                   /\ pc' = "raised"
                   /\ UNCHANGED <<structures, b>>
              ELSE /\ structures' = structures \o
                         [k \in 1..n |-> MakeStructure(catalog, cell_size, b, k, Len(structures) + k)]
                   /\ b' = b + 1
                   /\ pc' = pc
    /\ UNCHANGED <<catalog, cell_size, buildings, i, townhall, previous_townhall,
                   current_buildings, positions, valid, warnings,
                   max_combined_count, max_combined_level, printed, returned>>

\* main: generate_structures_list has returned, validate_village is called
CallValidate ==
    /\ pc = "resolve"
    /\ b > Len(buildings)
    /\ pc' = "scan"
    /\ UNCHANGED <<catalog, cell_size, buildings, building_cache, structures, b, i,
                   townhall, previous_townhall, current_buildings, positions, valid,
                   warnings, max_combined_count, max_combined_level, printed, returned>>

-----------------------------------------------------------------------------
(* validate_village *)

Warning(building_name, text) == [building |-> building_name, text |-> text]

NoTownhallLine == Warning("", "No townhall found, unable to validate village!")

\* Overlapping comparing with the most recently seen value only
OverlappingLast(value, seen) == seen # <<>> /\ seen[Len(seen)] = value

\* 'positions' of the building was seen before
Overlapping(value, seen) == \E n \in DOMAIN seen : seen[n] = value

\* one iteration of the loop over the structures
ScanBuilding ==
    /\ pc = "scan"
    /\ i <= Len(structures)
    /\ LET building       == structures[i]
           building_name  == building.name
           building_level == ToInt(building.level)
           lookup         == /\ building_name = "townhall"
                             /\ "townhall" \in building_cache
                             /\ building_level > 1
       IN  IF lookup /\ Str(building_level - 1) \notin LevelKeys(catalog, "townhall")
           THEN \* KeyError of building_cache['townhall'][str(building_level - 1)]
                /\ pc' = "raised"
                /\ UNCHANGED <<i, townhall, previous_townhall, current_buildings,
                               positions, valid, warnings>>
           ELSE /\ townhall' = IF building_name = "townhall" THEN Some(building) ELSE townhall
                /\ previous_townhall' =
                       IF lookup
                       THEN Some(LevelRecord(catalog, "townhall", Str(building_level - 1)))
                       ELSE previous_townhall
                /\ current_buildings' =
                       Put(current_buildings, building_name,
                           Append(GetOr(current_buildings, building_name, <<>>), building_level))
                /\ IF ~Overlapping(building.positions, positions)
                   THEN /\ positions' = Append(positions, building.positions)
                        /\ UNCHANGED <<warnings, valid>>
                   ELSE /\ warnings' = Append(warnings,
                               Warning(building_name, "is overlapping with another building"))
                        /\ valid' = FALSE
                        /\ UNCHANGED positions
                /\ i' = i + 1
                /\ pc' = pc
    /\ UNCHANGED <<catalog, cell_size, buildings, building_cache, structures, b,
                   max_combined_count, max_combined_level, printed, returned>>

\* NoTownhall reporting the collected warnings before it returns
NoTownhallReporting ==
    /\ pc = "scan"
    /\ i > Len(structures)
    /\ townhall = None
    /\ printed' = Append(printed \o warnings, NoTownhallLine)
    /\ returned' = Some(FALSE)
    /\ pc' = "done"
    /\ UNCHANGED <<catalog, cell_size, buildings, building_cache, structures, b, i,
                   townhall, previous_townhall, current_buildings, positions, valid,
                   warnings, max_combined_count, max_combined_level>>

\* the village has no townhall
NoTownhall ==
    /\ pc = "scan"
    /\ i > Len(structures)
    /\ townhall = None
    /\ printed' = Append(printed, NoTownhallLine)
    /\ returned' = Some(FALSE)
    /\ pc' = "done"
    /\ UNCHANGED <<catalog, cell_size, buildings, building_cache, structures, b, i,
                   townhall, previous_townhall, current_buildings, positions, valid,
                   warnings, max_combined_count, max_combined_level>>

\* AddItems overwriting the value of a key instead of adding to it
RECURSIVE AddItemsOverwriting(_, _)
AddItemsOverwriting(combined, d) ==
    IF d = <<>> THEN combined
    ELSE AddItemsOverwriting(Put(combined, Head(d).key, Head(d).value), Tail(d))

RECURSIVE AddItems(_, _)
AddItems(combined, d) ==
    IF d = <<>> THEN combined
    ELSE AddItems(Put(combined, Head(d).key, GetOr(combined, Head(d).key, 0) + Head(d).value),
                  Tail(d))

\* the combined dictionary of a list of tables
RECURSIVE Combine(_, _)
Combine(combined, tables) ==
    IF tables = <<>> THEN combined
    ELSE Combine(AddItems(combined, Head(tables)), Tail(tables))

CountTables(record) ==
    <<record.max_number_of_resource, record.max_number_of_army,
      record.max_number_of_defense, record.max_number_of_traps>>

LevelTables(record) ==
    <<record.max_level_of_resource, record.max_level_of_army,
      record.max_level_of_defense, record.max_level_of_traps>>

CombineTownhallTables ==
    /\ pc = "scan"
    /\ i > Len(structures)
    /\ townhall # None
    /\ max_combined_count' = Combine(<<>>, CountTables(townhall[1].rec))
    /\ max_combined_level' = Combine(<<>>, LevelTables(townhall[1].rec))
    /\ pc' = "ceiling"
    /\ UNCHANGED <<catalog, cell_size, buildings, building_cache, structures, b, i,
                   townhall, previous_townhall, current_buildings, positions, valid,
                   warnings, printed, returned>>

CountExceeds(levels, allowed) == Len(levels) > allowed

LevelExceeds(levels, allowed) == Max(levels) > allowed

\* Flag leaving the verdict as it is
FlagKeepingVerdict(acc, building_name, text) ==
    [acc EXCEPT !.warnings = Append(acc.warnings, Warning(building_name, text))]

\* a warning that makes the village invalid
Flag(acc, building_name, text) ==
    [valid |-> FALSE, warnings |-> Append(acc.warnings, Warning(building_name, text))]

\* a warning that leaves the verdict as it is
Note(acc, building_name, text) ==
    [acc EXCEPT !.warnings = Append(acc.warnings, Warning(building_name, text))]

\* the body of the loop over current_buildings, for one kind
CeilingCheck(acc, building_name, levels, count, level) ==
    LET a1 == IF ~Has(count, building_name) /\ building_name # "townhall"
              THEN Flag(acc, building_name, "not found in townhall") ELSE acc
    IN  IF ~Has(count, building_name)
        THEN IF building_name # "townhall"
             THEN Note(a1, building_name, "count not found") ELSE a1
        ELSE LET a2 == IF CountExceeds(levels, Get(count, building_name))
                       THEN Flag(a1, building_name, "count is more than allowed") ELSE a1
             IN  IF ~Has(level, building_name)
                 THEN Note(a2, building_name, "level not found")
                 ELSE IF LevelExceeds(levels, Get(level, building_name))
                      THEN Flag(a2, building_name, "level is more than allowed") ELSE a2

RECURSIVE CeilingLoop(_, _, _, _)
CeilingLoop(acc, current, count, level) ==
    IF current = <<>> THEN acc
    ELSE CeilingLoop(CeilingCheck(acc, Head(current).key, Head(current).value, count, level),
                     Tail(current), count, level)

CheckCeilings ==
    /\ pc = "ceiling"
    /\ LET acc == CeilingLoop([valid |-> valid, warnings |-> warnings],
                              current_buildings, max_combined_count, max_combined_level)
       IN  /\ valid' = acc.valid
           /\ warnings' = acc.warnings
    /\ pc' = "floor"
    /\ UNCHANGED <<catalog, cell_size, buildings, building_cache, structures, b, i,
                   townhall, previous_townhall, current_buildings, positions,
                   max_combined_count, max_combined_level, printed, returned>>

\* no previous townhall level: report the warnings and return
ReturnWithoutFloor ==
    /\ pc = "floor"
    /\ previous_townhall = None
    /\ printed' = printed \o warnings
    /\ returned' = Some(valid)
    /\ pc' = "done"
    /\ UNCHANGED <<catalog, cell_size, buildings, building_cache, structures, b, i,
                   townhall, previous_townhall, current_buildings, positions, valid,
                   warnings, max_combined_count, max_combined_level>>

\* CountBelow also rejecting a count equal to the required one
CountBelowOrEqual(required, levels) == required >= Len(levels)

CountBelow(required, levels) == required > Len(levels)

\* the body of the loop over min_combined_count, for one kind
FloorCheck(acc, min_building, required, current) ==
    IF ~Has(current, min_building)
    THEN Flag(acc, min_building, "not found")
    ELSE IF CountBelow(required, Get(current, min_building))
         THEN Flag(acc, min_building, "count is less than required") ELSE acc

RECURSIVE FloorLoop(_, _, _)
FloorLoop(acc, min_combined_count, current) ==
    IF min_combined_count = <<>> THEN acc
    ELSE FloorLoop(FloorCheck(acc, Head(min_combined_count).key,
                              Head(min_combined_count).value, current),
                   Tail(min_combined_count), current)

MinCombinedCount(previous) == Combine(<<>>, CountTables(previous))

CheckFloors ==
    /\ pc = "floor"
    /\ previous_townhall # None
    /\ LET acc == FloorLoop([valid |-> valid, warnings |-> warnings],
                            MinCombinedCount(previous_townhall[1]), current_buildings)
       IN  /\ valid' = acc.valid
           /\ warnings' = acc.warnings
           /\ printed' = printed \o acc.warnings
           /\ returned' = Some(acc.valid)
    /\ pc' = "done"
    /\ UNCHANGED <<catalog, cell_size, buildings, building_cache, structures, b, i,
                   townhall, previous_townhall, current_buildings, positions,
                   max_combined_count, max_combined_level>>

-----------------------------------------------------------------------------
(* Inputs *)

Troops == "barbarian"

RawBuildings ==
    {[type |-> "townhall", level |-> L, x |-> p[1], y |-> p[2], positions |-> <<>>, troops |-> ""] :
        L \in Levels, p \in Points}
    \cup
    {[type |-> k, level |-> L, x |-> 0, y |-> 0, positions |-> ps,
      troops |-> IF k = "army camp" THEN Troops ELSE ""] :
        k \in Kinds \ {"townhall"}, L \in Levels, ps \in SeqsUpTo(Points, 1, MaxPositions)}

\* a structure as a caller of validate_village may pass it: the keys it reads
DirectStructure(cat, name, L, pv) ==
    [rec       |-> LevelRecord(cat, name, Str(L)),
     level     |-> Str(L),
     name      |-> name,
     positions |-> pv]

\* the values of the 'positions' key: absent, or a list of positions
PositionsValues == {None, Some(<< <<0, 1>> >>)}

DirectStructures(cat) ==
    {DirectStructure(cat, name, L, pv) : name \in Kinds, L \in Levels, pv \in PositionsValues}

\* the (catalog, building cache) pairs of the direct calls
DirectCalls ==
    {<<cat, Kinds>> : cat \in Catalogs}
    \cup {<<Catalog("plain", AllLevelKeys), Kinds \ {"townhall"}>>}

\* the inputs of SpecGeometry: any footprint, any grid position
GeometryCatalogs ==
    {[variant |-> "plain", levels |-> AllLevelKeys, size |-> [kind \in Kinds |-> Size(w, h)]] :
        w \in 1..MaxSize, h \in 1..MaxSize}

GeometryBuildings ==
    {[type |-> "townhall", level |-> 1, x |-> px, y |-> py, positions |-> <<>>, troops |-> ""] :
        px \in 0..MaxCoord, py \in 0..MaxCoord}
    \cup
    {[type |-> "cannon", level |-> 1, x |-> 0, y |-> 0, positions |-> << <<px, py>> >>,
      troops |-> ""] : px \in 0..MaxCoord, py \in 0..MaxCoord}

ValidateLocals ==
    /\ i = 1
    /\ townhall = None
    /\ previous_townhall = None
    /\ current_buildings = <<>>
    /\ positions = <<>>
    /\ valid = TRUE
    /\ warnings = <<>>
    /\ max_combined_count = <<>>
    /\ max_combined_level = <<>>
    /\ printed = <<>>
    /\ returned = None

Init ==
    /\ catalog \in Catalogs
    /\ cell_size \in CellSizes
    /\ buildings \in SeqsUpTo(RawBuildings, 0, MaxBuildings)
    /\ building_cache = {}
    /\ structures = <<>>
    /\ b = 1
    /\ ValidateLocals
    /\ pc = "resolve"

InitDirect ==
    /\ \E call \in DirectCalls :
          /\ catalog = call[1]
          /\ building_cache = call[2]
    /\ cell_size = 10
    /\ buildings = <<>>
    /\ structures \in SeqsUpTo(DirectStructures(catalog), 0, MaxStructures)
    /\ b = 1
    /\ ValidateLocals
    /\ pc = "scan"

InitGeometry ==
    /\ catalog \in GeometryCatalogs
    /\ cell_size \in CellSizes
    /\ buildings \in SeqsUpTo(GeometryBuildings, 1, MaxBuildings)
    /\ building_cache = {}
    /\ structures = <<>>
    /\ b = 1
    /\ ValidateLocals
    /\ pc = "resolve"

Validate ==
    \/ ScanBuilding
    \/ NoTownhall
    \/ CombineTownhallTables
    \/ CheckCeilings
    \/ ReturnWithoutFloor
    \/ CheckFloors

Next ==
    \/ ResolveBuilding
    \/ CallValidate
    \/ Validate

NextDirect == Validate

NextGeometry == ResolveBuilding

Spec == Init /\ [][Next]_vars

SpecDirect == InitDirect /\ [][NextDirect]_vars

SpecGeometry == InitGeometry /\ [][NextGeometry]_vars

-----------------------------------------------------------------------------
(* The village as the caller sees it, computed from the arguments alone *)

Done == pc = "done"

Verdict == returned[1]

Townhalls == {n \in DOMAIN structures : structures[n].name = "townhall"}

\* the townhall structure validate_village keeps: the last one of the list
LastTownhall == structures[CHOOSE n \in Townhalls : \A m \in Townhalls : m <= n]

TownhallLevel == ToInt(LastTownhall.level)

CountOf(K) == Cardinality({n \in DOMAIN structures : structures[n].name = K})

HighestLevel(K) ==
    CHOOSE L \in Levels :
        /\ \E n \in DOMAIN structures : structures[n].name = K /\ ToInt(structures[n].level) = L
        /\ \A n \in DOMAIN structures : structures[n].name = K => ToInt(structures[n].level) <= L

Entry(table, K) == IF Has(table, K) THEN Get(table, K) ELSE 0

Listed(tables, K) == \E n \in 1..4 : Has(tables[n], K)

Summed(tables, K) ==
    Entry(tables[1], K) + Entry(tables[2], K) + Entry(tables[3], K) + Entry(tables[4], K)

Recorded(K, text) == \E n \in DOMAIN warnings : warnings[n] = Warning(K, text)

Reported(K, text) == \E n \in DOMAIN printed : printed[n] = Warning(K, text)

\* the catalog holds the townhall record of the level below the townhall's
FloorApplies ==
    /\ TownhallLevel > 1
    /\ "townhall" \in building_cache
    /\ Str(TownhallLevel - 1) \in LevelKeys(catalog, "townhall")

PreviousRecord == TownhallRecord(catalog.variant, TownhallLevel - 1)

OtherKinds == Kinds \ {"townhall"}

-----------------------------------------------------------------------------
(* Claims *)

\* C1: in main's pipeline, a village with one townhall, no two structures at
\* the same position, every kind within its combined max count and max level
\* and no floor-check kind under-built is reported valid with no warning,
\* however many structures it has.
C1_CleanVillageIsValid ==
    ( /\ Done
      /\ Cardinality(Townhalls) = 1
      /\ \A m, n \in DOMAIN structures :
             m # n => structures[m].position # structures[n].position
      /\ \A K \in OtherKinds :
             CountOf(K) > 0 =>
                 /\ Listed(CountTables(LastTownhall.rec), K)
                 /\ CountOf(K) <= Summed(CountTables(LastTownhall.rec), K)
                 /\ Listed(LevelTables(LastTownhall.rec), K)
                 /\ HighestLevel(K) <= Summed(LevelTables(LastTownhall.rec), K)
      /\ FloorApplies =>
             \A K \in Kinds : CountOf(K) >= Summed(CountTables(PreviousRecord), K) )
    => (Verdict = TRUE /\ warnings = <<>>)

\* C2 as claimed: without a townhall validate_village returns invalid, has
\* collected and reported no warning, and has inspected no building.
C2_NoTownhallNothingCollected ==
    (Done /\ Townhalls = {}) =>
        /\ Verdict = FALSE
        /\ warnings = <<>>
        /\ \A n \in DOMAIN printed : printed[n] = NoTownhallLine
        /\ current_buildings = <<>>

\* C2 as amended: without a townhall validate_village returns invalid and
\* reports no warning, only the no-townhall line; the scan has visited every
\* structure, but no ceiling or floor check has run.
C2_NoTownhallNothingReported ==
    (Done /\ Townhalls = {}) =>
        /\ Verdict = FALSE
        /\ printed = <<NoTownhallLine>>
        /\ i = Len(structures) + 1
        /\ max_combined_count = <<>>
        /\ max_combined_level = <<>>

C2_OverlapCollectedWithoutTownhall ==
    /\ Done
    /\ Townhalls = {}
    /\ Len(structures) >= 2
    /\ warnings # <<>>

\* C3: two structures with the same 'positions' value, of whatever kinds, give
\* an overlap warning and an invalid verdict, and with a townhall the ceiling
\* checks still run and the warning is reported.
C3_SharedPositionsFlagged ==
    Done =>
        \A m, n \in DOMAIN structures :
            (m < n /\ structures[m].positions = structures[n].positions) =>
                /\ Recorded(structures[n].name, "is overlapping with another building")
                /\ Verdict = FALSE
                /\ Townhalls # {} =>
                       /\ Reported(structures[n].name, "is overlapping with another building")
                       /\ \A K \in OtherKinds :
                              CountOf(K) > Summed(CountTables(LastTownhall.rec), K) =>
                                  \/ Recorded(K, "count is more than allowed")
                                  \/ Recorded(K, "not found in townhall")

C3_OverlapAndCeilingWarning ==
    /\ Done
    /\ Townhalls # {}
    /\ \E m, n \in DOMAIN structures :
           /\ m < n
           /\ structures[m].positions = structures[n].positions
           /\ structures[m].name # structures[n].name
           /\ Reported(structures[n].name, "is overlapping with another building")
    /\ \E K \in OtherKinds : Reported(K, "count is more than allowed")

\* C4: for a kind other than townhall that is in the village and in the summed
\* max-count tables of the townhall, the "count is more than allowed" warning
\* is recorded, with an invalid verdict, exactly when the kind has more
\* structures than the summed max count.
C4_CountCeiling ==
    (Done /\ Townhalls # {}) =>
        \A K \in OtherKinds :
            (CountOf(K) > 0 /\ Listed(CountTables(LastTownhall.rec), K)) =>
                /\ Recorded(K, "count is more than allowed")
                       <=> CountOf(K) > Summed(CountTables(LastTownhall.rec), K)
                /\ CountOf(K) > Summed(CountTables(LastTownhall.rec), K) => Verdict = FALSE

C4_CountEqualToSummedMax ==
    /\ Done
    /\ Townhalls # {}
    /\ \E K \in OtherKinds :
           /\ Has(LastTownhall.rec.max_number_of_defense, K)
           /\ Has(LastTownhall.rec.max_number_of_traps, K)
           /\ CountOf(K) = 2
           /\ Summed(CountTables(LastTownhall.rec), K) = 2
           /\ ~Recorded(K, "count is more than allowed")

\* C5 as claimed: when the floor check applies, every kind of the summed
\* max-count tables of level L-1 that is absent or under-built gets a "count
\* is less than required" warning and the verdict is invalid, and a kind that
\* meets its count gets no floor warning.
C5_FloorWarningIsLessThanRequired ==
    (Done /\ Townhalls # {} /\ FloorApplies) =>
        \A K \in Kinds :
            Listed(CountTables(PreviousRecord), K) =>
                /\ CountOf(K) < Summed(CountTables(PreviousRecord), K) =>
                       (Recorded(K, "count is less than required") /\ Verdict = FALSE)
                /\ CountOf(K) >= Summed(CountTables(PreviousRecord), K) =>
                       (~Recorded(K, "count is less than required") /\ ~Recorded(K, "not found"))

\* C5 as amended: when the floor check applies, a kind of the summed max-count
\* tables of level L-1 that is absent gets a "not found" warning, one that is
\* present fewer times than the summed value gets a "count is less than
\* required" warning, in both cases with an invalid verdict, and one that is
\* present and meets its count gets neither.
C5_FloorWarnings ==
    (Done /\ Townhalls # {} /\ FloorApplies) =>
        \A K \in Kinds :
            Listed(CountTables(PreviousRecord), K) =>
                /\ CountOf(K) = 0 =>
                       /\ Recorded(K, "not found")
                       /\ ~Recorded(K, "count is less than required")
                       /\ Verdict = FALSE
                /\ (0 < CountOf(K) /\ CountOf(K) < Summed(CountTables(PreviousRecord), K)) =>
                       /\ Recorded(K, "count is less than required")
                       /\ ~Recorded(K, "not found")
                       /\ Verdict = FALSE
                /\ (0 < CountOf(K) /\ CountOf(K) >= Summed(CountTables(PreviousRecord), K)) =>
                       /\ ~Recorded(K, "count is less than required")
                       /\ ~Recorded(K, "not found")

C5_AbsentAndUnderBuilt ==
    /\ Done
    /\ Townhalls # {}
    /\ FloorApplies
    /\ \E K \in Kinds : Recorded(K, "not found")
    /\ \E K \in Kinds : Recorded(K, "count is less than required")

\* C6: a valid verdict is given only to a list with exactly one townhall, and
\* the floor check uses the record of the level below the townhall whose
\* tables the ceiling checks use.
C6_ValidOnlyWithOneTownhall ==
    Done =>
        /\ Verdict = TRUE => Cardinality(Townhalls) = 1
        /\ (townhall # None /\ previous_townhall # None) =>
               /\ ToInt(townhall[1].level) > 1
               /\ previous_townhall[1] =
                      TownhallRecord(catalog.variant, ToInt(townhall[1].level) - 1)

\* C7: the center of every resolved structure: on an axis with an even
\* footprint it is exactly (position + footprint/2) * cell_size, on an axis
\* with an odd footprint it is (position + (footprint-1)/2) * cell_size plus
\* cell_size \div 2, whatever the parity of the other axis.
C7_CenterGeometry ==
    \A n \in DOMAIN structures :
        LET s  == structures[n]
            px == s.position[1]
            py == s.position[2]
            w  == s.size.width
            h  == s.size.height
            c  == cell_size
        IN  /\ w % 2 = 0 => 2 * s.center[1] = (2 * px + w) * c
            /\ w % 2 = 1 => s.center[1] = (px + (w - 1) \div 2) * c + c \div 2
            /\ h % 2 = 0 => 2 * s.center[2] = (2 * py + h) * c
            /\ h % 2 = 1 => s.center[2] = (py + (h - 1) \div 2) * c + c \div 2

C7_OddWidthEvenHeight ==
    \E n \in DOMAIN structures :
        /\ structures[n].size.width % 2 = 1
        /\ structures[n].size.height % 2 = 0
        /\ structures[n].position[1] # structures[n].position[2]
        /\ cell_size % 2 = 1

\* C8 as claimed: whenever a warning was recorded the verdict is invalid.
C8_AnyWarningInvalidates ==
    (Done /\ warnings # <<>>) => Verdict = FALSE

\* C8 as amended: whenever a warning other than "level not found" was
\* recorded the verdict is invalid; a valid verdict implies that every
\* recorded warning is a "level not found" warning.
C8_FlaggedWarningInvalidates ==
    (Done /\ \E n \in DOMAIN warnings : warnings[n].text # "level not found")
        => Verdict = FALSE

C8_LevelNotFoundAmongFlagged ==
    /\ Done
    /\ Townhalls # {}
    /\ \E K \in OtherKinds : Recorded(K, "level not found")
    /\ \E K \in OtherKinds : Recorded(K, "count is less than required")
    /\ Verdict = FALSE

\* C9: the floor check runs exactly when the townhall level L is above 1 and
\* the cache holds the townhall record of level L-1; in every other case
\* validate_village returns normally without a floor check.
C9_FloorCheckGuard ==
    /\ pc # "raised"
    /\ (Done /\ Townhalls # {}) => (previous_townhall # None <=> FloorApplies)

\* the mutable objects a structure refers to
MutableRefs(s) ==
    {s.rec_ref, s.size_ref, s.position_ref}
    \cup (IF s.troops_ref = None THEN {} ELSE {s.troops_ref[1]})

\* C10: every resolved structure is an independent copy: none of its mutable
\* fields is an object of the catalog cache or of another structure.
C10_IndependentCopies ==
    \A n \in DOMAIN structures :
        /\ \A r \in MutableRefs(structures[n]) : r.owner # "cache"
        /\ \A m \in DOMAIN structures :
               m # n => MutableRefs(structures[m]) \cap MutableRefs(structures[n]) = {}

=============================================================================
